---------------------------- MODULE Spec2Model ----------------------------
(***************************************************************************)
(* Reference convolution kernel of ArmNN                                   *)
(* (src/armnn/backends/RefWorkloads/ConvImpl.hpp), instantiated as         *)
(* ConvImpl<ConvData, uint8_t, int32_t, int32_t>, together with the        *)
(* fixed-point multiplier QuantizedMultiplierSmallerThanOne it uses to     *)
(* requantize each accumulator; and the classifier test case of the        *)
(* inference test harness (tests/InferenceTest.inl) with the accuracy      *)
(* counters its test cases share.                                          *)
(*                                                                         *)
(* All integers of the program are 32 bits wide.  TLC's integers are 32    *)
(* bits wide as well, so every operator below is written so that no        *)
(* intermediate value leaves [MinI32, MaxI32]: the 64-bit product of       *)
(* SaturatingRoundingDoublingHighMul is computed on limbs of 15 bits.      *)
(***************************************************************************)
EXTENDS Integers, Sequences, FiniteSets, TLC

VARIABLES
    cfg,     \* invocation -> the arguments of that call of ConvImpl
    pc,      \* invocation -> position in ConvImpl
    loc,     \* invocation -> the local variables of ConvImpl
    heap,    \* buffer id -> contents (caller-owned memory)
    heap0,   \* ghost: the heap when the calls started
    obs,     \* ghost: invocation -> what the call has read and written so far
    arith,   \* operands and results of the fixed-point primitives
    test     \* the classifier test case provider and the calls made on it

vars == <<cfg, pc, loc, heap, heap0, obs, arith, test>>

---------------------------------------------------------------------------
(* int32_t *)

MaxI32 == 2147483647
MinI32 == -MaxI32 - 1

IsI32(v) == v \in Int /\ v >= MinI32 /\ v <= MaxI32

Pow2(e) == 2 ^ e

Limb == 2 ^ 15

\* |a| as three limbs of 15 bits, least significant first (|MinI32| = 2 * 2^30).
Limbs(a) ==
    IF a = MinI32 THEN <<0, 0, 2>>
    ELSE LET m == IF a < 0 THEN -a ELSE a
         IN  <<m % Limb, (m \div Limb) % Limb, m \div (Limb * Limb)>>

\* |a| * |b| as <<L, Hh, Ho>>: L = P % 2^30, Hh = (P \div 2^30) \div 2,
\* Ho = (P \div 2^30) % 2, for the 64-bit product P (a_64 * b_64 in magnitude).
Product64(a, b) ==
    LET x  == Limbs(a)
        y  == Limbs(b)
        c0 == x[1] * y[1]
        c1 == x[1] * y[2] + x[2] * y[1]
        c2 == x[1] * y[3] + x[2] * y[2] + x[3] * y[1]
        c3 == x[2] * y[3] + x[3] * y[2]
        c4 == x[3] * y[3]
        d0 == c0 % Limb
        t1 == c1 + (c0 \div Limb)
        d1 == t1 % Limb
        t2 == c2 + (t1 \div Limb)
        d2 == t2 % Limb
        t3 == c3 + (t2 \div Limb)
        d3 == t3 % Limb
        d4 == c4 + (t3 \div Limb)
    IN  << d0 + d1 * Limb,
           (d2 \div 2) + d3 * (Limb \div 2) + d4 * ((Limb * Limb) \div 2),
           d2 % 2 >>

\* The nudge added to the 64-bit product before the division by 2^31:
\* 2^30 for a product >= 0, 1 - 2^30 for a negative one.  Given the sign of
\* the product and its low 30 bits, the carry the nudge sends into bit 30.
NudgeCarry(negative, low) == IF negative /\ low = 0 THEN 0 ELSE 1

\* A variant of the saturation test: saturates whenever a is INT32_MIN.
SaturatesBad(a, b) == a = MinI32

Saturates(a, b) == a = b /\ a = MinI32

\* (a * b + nudge) / 2^31 on 64 bits, the division truncating toward zero;
\* INT32_MAX for the one pair whose result does not fit.
SaturatingRoundingDoublingHighMul(a, b) ==
    IF Saturates(a, b) THEN MaxI32
    ELSE LET p        == Product64(a, b)
             negative == (a < 0 /\ b > 0) \/ (a > 0 /\ b < 0)
             mag      == p[2] + (p[3] * NudgeCarry(negative, p[1]))
         IN  IF negative THEN -mag ELSE mag

\* A variant of the threshold that is the same for negative x.
ThresholdBad(x, mask) == mask \div 2

\* threshold of RoundingDivideByPOT: half the mask, one more for negative x.
Threshold(x, mask) == (mask \div 2) + (IF x < 0 THEN 1 ELSE 0)

\* x >> exponent (arithmetic) corrected by the remainder: x / 2^exponent
\* rounded to nearest, halves away from zero.  No intermediate overflows.
RoundingDivideByPOT(x, exponent) ==
    LET mask      == Pow2(exponent) - 1
        remainder == x % Pow2(exponent)
    IN  (x \div Pow2(exponent)) + (IF remainder > Threshold(x, mask) THEN 1 ELSE 0)

\* A float that is n * 2^(-k), as <<n, k>>; k may be negative.
FMul(x, y) == <<x[1] * y[1], x[2] + y[2]>>

\* division by a power of two, y = <<1, k>>
FDiv(x, y) == <<x[1], x[2] - y[2]>>

RECURSIVE BitLen(_)
BitLen(n) == IF n = 0 THEN 0 ELSE 1 + BitLen(n \div 2)

\* QuantizedMultiplierSmallerThanOne(multiplier): multiplier = q * 2^(-shift)
\* with q in [1/2, 1), stored as m_Multiplier = q * 2^31 in [2^30, 2^31) and
\* m_RightShift = shift >= 0.  A multiplier that has no such form (not in
\* (0, 1)) fails the constructor's precondition.
QuantizedMultiplierSmallerThanOne(multiplier) ==
    LET n == multiplier[1]
        L == BitLen(n)
    IN  [ valid        |-> n > 0 /\ multiplier[2] - L >= 0 /\ multiplier[2] - L <= 30,
          m_Multiplier |-> IF n > 0 THEN n * Pow2(31 - L) ELSE 0,
          m_RightShift |-> multiplier[2] - L ]

\* operator*(rhs)
Times(q, rhs) ==
    RoundingDivideByPOT(SaturatingRoundingDoublingHighMul(rhs, q.m_Multiplier),
                        q.m_RightShift)

---------------------------------------------------------------------------
(* Signed overflow of AccumulatorType (int32_t) is undefined behaviour.    *)
(* The outcomes modelled are the two a build produces: the two's           *)
(* complement wrap of a 32-bit add, and the exact sum as a wider register  *)
(* holds it, seen through int32 as the nearest limit.                      *)

FitsI32(a, b) == IF b >= 0 THEN a <= MaxI32 - b ELSE a >= MinI32 - b

Wrap32(a, b) == IF b >= 0 THEN (a + MinI32) + (b + MinI32) ELSE (a - MinI32) + (b - MinI32)

Sat32(a, b) == IF b >= 0 THEN MaxI32 ELSE MinI32

AddI32(a, b) == IF FitsI32(a, b) THEN {a + b} ELSE {Wrap32(a, b), Sat32(a, b)}

---------------------------------------------------------------------------
(* The arguments of one call, c = cfg[p]; names as in ConvImpl.            *)
(* Shapes are NCHW: <<shape[0], shape[1], shape[2], shape[3]>>.            *)

NullPtr == 0

depthMult(c) == IF c.depthwise THEN c.filterShape[1] ELSE 1

channelsInput(c) == c.filterShape[2]

channelsOutput(c) == IF c.depthwise THEN channelsInput(c) * depthMult(c) ELSE c.filterShape[1]

batchSize(c) == c.outputShape[1]

heightOutput(c) == c.outputShape[3]

widthOutput(c) == c.outputShape[4]

heightInput(c) == c.inputShape[3]

widthInput(c) == c.inputShape[4]

heightFilter(c) == c.filterShape[3]

widthFilter(c) == c.filterShape[4]

\* A variant without the assertion.
BiasAssertSkipped(c) == TRUE

\* BOOST_ASSERT(data.m_Parameters.m_BiasEnabled == false || biasData != nullptr)
BiasAssert(c) == c.m_BiasEnabled = FALSE \/ c.biasData # NullPtr

\* A variant of the loop bound that is channelsInput for depthwise as well.
ChannelLoopLimitShared(c) == channelsInput(c)

\* the bound of the input-channel loop: cInput < (depthwise ? 1 : channelsInput)
ChannelLoopLimit(c) == IF c.depthwise THEN 1 ELSE channelsInput(c)

\* A variant of the depthwise index without the input-channel term.
FilterIndexNoChannel(c, l) ==
    IF c.depthwise
    THEN l.depthwiseMultiplierIdx * widthFilter(c) * heightFilter(c) * channelsInput(c) +
         l.yFilter * widthFilter(c) +
         l.xFilter
    ELSE l.cOutput * widthFilter(c) * heightFilter(c) * channelsInput(c) +
         l.cInput * widthFilter(c) * heightFilter(c) +
         l.yFilter * widthFilter(c) +
         l.xFilter

\* since dimensionality of kernel depends on depthwiseness, so does index
FilterIndex(c, l) ==
    IF c.depthwise
    THEN l.depthwiseMultiplierIdx * widthFilter(c) * heightFilter(c) * channelsInput(c) +
         l.cInput * widthFilter(c) * heightFilter(c) +
         l.yFilter * widthFilter(c) +
         l.xFilter
    ELSE l.cOutput * widthFilter(c) * heightFilter(c) * channelsInput(c) +
         l.cInput * widthFilter(c) * heightFilter(c) +
         l.yFilter * widthFilter(c) +
         l.xFilter

yInputOf(c, l) == l.yOutput * c.m_StrideY + l.yFilter

xInputOf(c, l) == l.xOutput * c.m_StrideX + l.xFilter

\* A variant of the padding test that is off by one at the far edges.
InPaddingOffByOne(c, yInput, xInput) ==
    \/ yInput < c.m_PadTop
    \/ yInput > heightInput(c) + c.m_PadTop
    \/ xInput < c.m_PadLeft
    \/ xInput > widthInput(c) + c.m_PadLeft

\* check if we're in the padding
InPadding(c, yInput, xInput) ==
    \/ yInput < c.m_PadTop
    \/ yInput >= heightInput(c) + c.m_PadTop
    \/ xInput < c.m_PadLeft
    \/ xInput >= widthInput(c) + c.m_PadLeft

InputIndex(c, l, yInput, xInput) ==
    l.batchIdx * widthInput(c) * heightInput(c) * channelsInput(c) +
    widthInput(c) * heightInput(c) * l.cInput +
    widthInput(c) * (yInput - c.m_PadTop) +
    xInput - c.m_PadLeft

OutputIndex(c, l) ==
    l.batchIdx * widthOutput(c) * heightOutput(c) * channelsOutput(c) +
    widthOutput(c) * heightOutput(c) * l.cOutput +
    widthOutput(c) * l.yOutput +
    l.xOutput

\* A variant of the padded input value: "the value at the offset" minus the
\* zero point, instead of the additive identity.
PaddedInputValueMinusOffset(c) == 0 - c.inputOffset

\* inputValue = AccumulatorType()
PaddedInputValue(c) == 0

\* A read of element i (from 0) of buffer b.  A null or out-of-range read is
\* undefined behaviour: any element value may come back.
ReadOutcomes(h, b, i) ==
    IF b # NullPtr /\ i >= 0 /\ i < Len(h[b]) THEN {h[b][i + 1]} ELSE {0, 255}

ValidRead(h, b, i) == b # NullPtr /\ i >= 0 /\ i < Len(h[b])

\* A variant of the clamp that narrows without saturating.
ClampU8Wrapping(v) == v % 256

\* std::min<AccumulatorType>(std::max<AccumulatorType>(sum, 0), 255)
ClampU8(v) == IF v < 0 THEN 0 ELSE IF v > 255 THEN 255 ELSE v

\* boost::numeric_cast<uint8_t>: the value, or an exception when it does not fit
NumericCastU8Fits(v) == v >= 0 /\ v <= 255

---------------------------------------------------------------------------
(* ConvImpl, one call p.  pc[p] is "entry" before line 68, "chan_test" at  *)
(* the test of the input-channel loop (line 98), "mac" inside the filter   *)
(* loops (lines 113-152), "finish" after the channel loop (line 157), and  *)
(* one of "done", "assert_failed", "threw", "crashed" once the call ended. *)

InitLocals ==
    [ batchIdx |-> 0, cOutput |-> 0, yOutput |-> 0, xOutput |-> 0,
      sum |-> 0, cInput |-> 0, depthwiseMultiplierIdx |-> 0,
      yFilter |-> 0, xFilter |-> 0 ]

NoMac ==
    [ valid |-> FALSE, yInput |-> 0, xInput |-> 0, padded |-> FALSE,
      filterIndex |-> 0, inputIndex |-> 0, before |-> 0, after |-> 0 ]

NoFinish ==
    [ valid |-> FALSE, kind |-> "none", batchIdx |-> 0, cOutput |-> 0, yOutput |-> 0,
      xOutput |-> 0, index |-> 0, acc |-> 0, biased |-> 0, pre |-> 0, value |-> 0 ]

InitObs ==
    [ writes |-> <<>>, readBufs |-> {}, writeBufs |-> {}, oob |-> FALSE,
      bodyRuns |-> <<>>, lastMac |-> NoMac, lastFinish |-> NoFinish ]

Ended(p) == pc[p] \in {"done", "assert_failed", "threw", "crashed"}

\* A variant in which every call accumulates into one static accumulator.
AccumulatorShared(p) == CHOOSE q \in DOMAIN loc : \A r \in DOMAIN loc : q <= r

\* line 94: AccumulatorType sum is an automatic variable of the call
AccumulatorOf(p) == p

\* the loop variables and the accumulator as call p reads them
Locals(p) == [loc[p] EXCEPT !.sum = loc[AccumulatorOf(p)].sum]

\* the loop variables and the accumulator of call p, stored
Store(p, l) ==
    LET a == AccumulatorOf(p)
    IN  [ q \in DOMAIN loc |->
            IF q = p THEN (IF a = p THEN l ELSE [l EXCEPT !.sum = loc[p].sum])
            ELSE IF q = a THEN [loc[q] EXCEPT !.sum = l.sum]
            ELSE loc[q] ]

\* lines 60-83: the shapes are read and the precondition is asserted
Enter(p) ==
    /\ pc[p] = "entry"
    /\ IF BiasAssert(cfg[p])
       THEN /\ pc' = [pc EXCEPT ![p] = "chan_test"]
            /\ loc' = Store(p, InitLocals)
       ELSE /\ pc' = [pc EXCEPT ![p] = "assert_failed"]
            /\ UNCHANGED loc
    /\ UNCHANGED <<cfg, heap, heap0, obs, arith, test>>

\* lines 98-105: the test of the input-channel loop and the head of its body
ChannelLoopTest(p) ==
    LET c  == cfg[p]
        l  == Locals(p)
        ci == IF c.depthwise THEN l.cOutput \div depthMult(c) ELSE l.cInput
        mi == IF c.depthwise THEN l.cOutput % depthMult(c) ELSE 0
    IN  /\ pc[p] = "chan_test"
        /\ IF l.cInput < ChannelLoopLimit(c)
           THEN /\ obs' = [obs EXCEPT ![p].bodyRuns = Append(@, <<ci, mi>>)]
                /\ IF heightFilter(c) > 0 /\ widthFilter(c) > 0
                   THEN /\ loc' = Store(p, [l EXCEPT !.cInput = ci,
                                                      !.depthwiseMultiplierIdx = mi,
                                                      !.yFilter = 0,
                                                      !.xFilter = 0])
                        /\ pc' = [pc EXCEPT ![p] = "mac"]
                   ELSE /\ loc' = Store(p, [l EXCEPT !.cInput = ci + 1,
                                                      !.depthwiseMultiplierIdx = 0])
                        /\ UNCHANGED pc
           ELSE /\ pc' = [pc EXCEPT ![p] = "finish"]
                /\ UNCHANGED <<loc, obs>>
        /\ UNCHANGED <<cfg, heap, heap0, arith, test>>

\* the increments of the filter loops (lines 107, 109) and, when both end,
\* of the input-channel loop (line 98)
AfterMac(c, l, s) ==
    IF l.xFilter + 1 < widthFilter(c)
    THEN [l EXCEPT !.sum = s, !.xFilter = @ + 1]
    ELSE IF l.yFilter + 1 < heightFilter(c)
    THEN [l EXCEPT !.sum = s, !.xFilter = 0, !.yFilter = @ + 1]
    ELSE [l EXCEPT !.sum = s, !.xFilter = 0, !.yFilter = 0,
                   !.depthwiseMultiplierIdx = 0, !.cInput = @ + 1]

\* lines 113-152: one multiply-accumulate
Mac(p) ==
    LET c      == cfg[p]
        l      == Locals(p)
        fi     == FilterIndex(c, l)
        yInput == yInputOf(c, l)
        xInput == xInputOf(c, l)
        padded == InPadding(c, yInput, xInput)
        ii     == InputIndex(c, l, yInput, xInput)
        last   == l.xFilter + 1 >= widthFilter(c) /\ l.yFilter + 1 >= heightFilter(c)
    IN  /\ pc[p] = "mac"
        /\ \E f \in ReadOutcomes(heap, c.filterData, fi) :
           \E i \in (IF padded THEN {0} ELSE ReadOutcomes(heap, c.inputData, ii)) :
             LET filterValue == f - c.filterOffset
                 inputValue  == IF padded THEN PaddedInputValue(c) ELSE i - c.inputOffset
             IN  \E s \in AddI32(l.sum, filterValue * inputValue) :
                   /\ loc' = Store(p, AfterMac(c, l, s))
                   /\ obs' = [obs EXCEPT
                        ![p].readBufs = @ \cup {c.filterData}
                                          \cup (IF padded THEN {} ELSE {c.inputData}),
                        ![p].oob = \/ @
                                   \/ ~ValidRead(heap, c.filterData, fi)
                                   \/ /\ ~padded
                                      /\ \/ ~ValidRead(heap, c.inputData, ii)
                                         \/ yInput < c.m_PadTop
                                         \/ xInput < c.m_PadLeft,
                        ![p].lastMac = [ valid |-> TRUE, yInput |-> yInput,
                                         xInput |-> xInput, padded |-> padded,
                                         filterIndex |-> fi,
                                         inputIndex |-> IF padded THEN 0 ELSE ii,
                                         before |-> l.sum, after |-> s ]]
        /\ pc' = [pc EXCEPT ![p] = IF last THEN "chan_test" ELSE "mac"]
        /\ UNCHANGED <<cfg, heap, heap0, arith, test>>

\* line 164: float multiplier = (inputScale * filterScale) / outputScale
MultiplierOf(c) == FDiv(FMul(c.inputScale, c.filterScale), c.outputScale)

Quantized(c) == c.outputScale[1] # 0

\* line 177: the narrowing cast of the value to write
Narrow(biased, pre, v) ==
    [ kind |-> IF NumericCastU8Fits(v) THEN "write" ELSE "threw",
      biased |-> biased, pre |-> pre, value |-> v ]

\* lines 162-172: requantize and clamp, or pass the accumulator through
Requantize(c, s1) ==
    IF Quantized(c)
    THEN LET q == QuantizedMultiplierSmallerThanOne(MultiplierOf(c))
         IN  IF q.valid
             THEN { Narrow(s1, s2, ClampU8(s2)) : s2 \in AddI32(Times(q, s1), c.outputOffset) }
             ELSE { [ kind |-> "assert_failed", biased |-> s1, pre |-> 0, value |-> 0 ] }
    ELSE { Narrow(s1, s1, s1) }

\* lines 157-177: what finishing the current output element can come to
FinishOutcomes(c, l, h) ==
    IF c.m_BiasEnabled
    THEN IF c.biasData = NullPtr
         THEN { [ kind |-> "crashed", biased |-> 0, pre |-> 0, value |-> 0 ] }
         ELSE UNION { UNION { Requantize(c, s1) : s1 \in AddI32(l.sum, b) } :
                      b \in ReadOutcomes(h, c.biasData, l.cOutput) }
    ELSE Requantize(c, l.sum)

\* the increments of the four output loops (lines 85-91); "none" after the last
AfterWrite(c, l) ==
    IF l.xOutput + 1 < widthOutput(c)
    THEN [InitLocals EXCEPT !.batchIdx = l.batchIdx, !.cOutput = l.cOutput,
                            !.yOutput = l.yOutput, !.xOutput = l.xOutput + 1]
    ELSE IF l.yOutput + 1 < heightOutput(c)
    THEN [InitLocals EXCEPT !.batchIdx = l.batchIdx, !.cOutput = l.cOutput,
                            !.yOutput = l.yOutput + 1]
    ELSE IF l.cOutput + 1 < channelsOutput(c)
    THEN [InitLocals EXCEPT !.batchIdx = l.batchIdx, !.cOutput = l.cOutput + 1]
    ELSE [InitLocals EXCEPT !.batchIdx = l.batchIdx + 1]

\* lines 157-177: bias, requantization, clamp, narrowing cast and the write
FinishElement(p) ==
    LET c   == cfg[p]
        l   == Locals(p)
        idx == OutputIndex(c, l)
        nxt == AfterWrite(c, l)
    IN  /\ pc[p] = "finish"
        /\ \E o \in FinishOutcomes(c, l, heap) :
             LET wrote == o.kind = "write" /\ ValidRead(heap, c.outputData, idx)
                 rec   == [ valid |-> TRUE,
                            kind |-> IF o.kind = "write" /\ ~wrote THEN "crashed" ELSE o.kind,
                            batchIdx |-> l.batchIdx, cOutput |-> l.cOutput,
                            yOutput |-> l.yOutput, xOutput |-> l.xOutput, index |-> idx,
                            acc |-> l.sum, biased |-> o.biased, pre |-> o.pre,
                            value |-> o.value ]
             IN  /\ heap' = IF wrote
                            THEN [heap EXCEPT ![c.outputData][idx + 1] = o.value]
                            ELSE heap
                 /\ obs' = [obs EXCEPT
                      ![p].lastFinish = rec,
                      ![p].bodyRuns = IF wrote THEN <<>> ELSE @,
                      ![p].readBufs = IF c.m_BiasEnabled THEN @ \cup {c.biasData} ELSE @,
                      ![p].writes = IF wrote THEN Append(@, idx) ELSE @,
                      ![p].writeBufs = IF wrote THEN @ \cup {c.outputData} ELSE @]
                 /\ loc' = IF wrote THEN Store(p, nxt) ELSE loc
                 /\ pc' = [pc EXCEPT ![p] =
                      IF wrote
                      THEN IF nxt.batchIdx < batchSize(c) THEN "chan_test" ELSE "done"
                      ELSE rec.kind]
        /\ UNCHANGED <<cfg, heap0, arith, test>>

---------------------------------------------------------------------------
(* The calls checked: shapes, quantization parameters and buffer contents. *)

MaxKernel == 2
MaxStride == 2
MaxPad == 1
MaxOut == 2
MaxChannels == 2
MaxBatch == 2
InDim == 2

\* caller-owned buffers of call p
InBuf(p) == 4 * (p - 1) + 1

FiltBuf(p) == 4 * (p - 1) + 2

BiasBuf(p) == 4 * (p - 1) + 3

OutBuf(p) == 4 * (p - 1) + 4

Shape(dw, f0, cin, kh, kw, sy, sx, pt, pl, ho, wo, n) ==
    [ depthwise |-> dw, f0 |-> f0, cin |-> cin, kh |-> kh, kw |-> kw,
      sy |-> sy, sx |-> sx, pt |-> pt, pl |-> pl, ho |-> ho, wo |-> wo, n |-> n ]

\* one channel, one batch: every kernel size, stride, padding and output size
SpatialShapes ==
    { Shape(dw, 1, 1, kh, kw, sy, sx, pt, pl, ho, wo, 1) :
      dw \in BOOLEAN,
      kh \in 1..MaxKernel, kw \in 1..MaxKernel, sy \in 1..MaxStride, sx \in 1..MaxStride,
      pt \in 0..MaxPad, pl \in 0..MaxPad, ho \in 1..MaxOut, wo \in 1..MaxOut }

\* a 1 x 2 kernel over a row of two outputs, stride 1, padding on the left:
\* every channel count, depth multiplier and batch size
ChannelShapes ==
    { Shape(dw, f0, cin, 1, 2, 1, 1, 0, 1, 1, 2, n) :
      dw \in BOOLEAN, f0 \in 1..MaxChannels, cin \in 1..MaxChannels, n \in 1..MaxBatch }

\* a single row of at most MaxOut output elements per channel
RowShapes ==
    { Shape(dw, 1, cin, 1, kw, 1, 1, 0, pl, 1, wo, 1) :
      dw \in BOOLEAN, cin \in 1..MaxChannels, kw \in 1..MaxKernel,
      pl \in 0..MaxPad, wo \in 1..MaxOut }

InputPattern(k, n) ==
    [ i \in 1..n |->
        CASE k = "ramp"  -> i
          [] k = "cycle" -> (i % 7) + 1
          [] OTHER       -> 256 - i ]

FilterPattern(k, n) ==
    [ i \in 1..n |->
        CASE k = "ones"  -> 1
          [] k = "cycle" -> (i % 3) + 1
          [] OTHER       -> i + 1 ]

BiasPattern(k, n) ==
    [ i \in 1..n |->
        CASE k = "small"   -> IF i % 2 = 1 THEN 5 ELSE -7
          [] k = "wide"    -> IF i % 2 = 1 THEN 300 ELSE -4
          [] k = "extreme" -> IF i % 2 = 1 THEN MaxI32 ELSE MinI32
          [] OTHER         -> 0 ]

OutputGarbage(n) == [ i \in 1..n |-> 77 ]

One == <<1, 0>>

Zero == <<0, 0>>

Scenario(io, fo, is, fs, os, oo, be, bn, ip, fp, bp) ==
    [ inputOffset |-> io, filterOffset |-> fo, inputScale |-> is, filterScale |-> fs,
      outputScale |-> os, outputOffset |-> oo, biasEnabled |-> be, biasNull |-> bn,
      inPat |-> ip, filtPat |-> fp, biasPat |-> bp ]

\* no requantization (outputScale == 0), and requantization by 1/4
SpatialScenarios ==
    { Scenario(0, 0, Zero, Zero, Zero, 0, FALSE, TRUE, "ramp", "ones", "zero"),
      Scenario(3, 1, Zero, Zero, Zero, 0, TRUE, FALSE, "high", "ramp", "small"),
      Scenario(3, 1, <<1, 1>>, <<1, 1>>, One, 10, TRUE, FALSE, "high", "ramp", "small") }

Scenarios ==
    SpatialScenarios \cup
    { \* no requantization
      Scenario(0, 0, Zero, Zero, Zero, 0, TRUE, FALSE, "ramp", "ramp", "small"),
      Scenario(3, 1, Zero, Zero, Zero, 0, FALSE, FALSE, "high", "ramp", "zero"),
      Scenario(3, 1, Zero, Zero, Zero, 0, TRUE, FALSE, "high", "ramp", "wide"),
      \* requantization by 3/4
      Scenario(0, 2, <<3, 2>>, One, One, 128, FALSE, FALSE, "ramp", "ramp", "zero"),
      \* bias enabled without a bias buffer
      Scenario(3, 1, <<1, 1>>, <<1, 1>>, One, 10, TRUE, TRUE, "ramp", "ramp", "zero"),
      \* a multiplier of 2
      Scenario(0, 0, One, One, <<1, 1>>, 0, FALSE, TRUE, "ramp", "ones", "zero") }

\* accumulators and offsets at the limits of int32_t
ExtremeScenarios ==
    { Scenario(0, 2, <<3, 2>>, One, One, 128, TRUE, FALSE, "ramp", "ramp", "extreme"),
      Scenario(3, 1, <<3, 2>>, <<1, 1>>, One, MaxI32, TRUE, FALSE, "high", "ones", "extreme"),
      Scenario(1, 0, <<1, 1>>, One, One, MinI32, FALSE, TRUE, "high", "ramp", "zero"),
      Scenario(0, 0, Zero, Zero, Zero, 0, TRUE, FALSE, "ramp", "ones", "extreme") }

\* The arguments of call p for a shape and a scenario, with the contents of its
\* four buffers.  The input tensor is [n, channelsInput, InDim, InDim] and the
\* output tensor [n, channelsOutput, ho, wo].
MakeCall(p, sh, sc) ==
    LET cout == IF sh.depthwise THEN sh.cin * sh.f0 ELSE sh.f0
    IN  [ c |-> [ depthwise |-> sh.depthwise,
                  filterShape |-> <<sh.f0, sh.cin, sh.kh, sh.kw>>,
                  inputShape |-> <<sh.n, sh.cin, InDim, InDim>>,
                  outputShape |-> <<sh.n, cout, sh.ho, sh.wo>>,
                  m_PadTop |-> sh.pt, m_PadLeft |-> sh.pl,
                  m_StrideY |-> sh.sy, m_StrideX |-> sh.sx,
                  m_BiasEnabled |-> sc.biasEnabled,
                  inputData |-> InBuf(p), filterData |-> FiltBuf(p),
                  biasData |-> IF sc.biasNull THEN NullPtr ELSE BiasBuf(p),
                  outputData |-> OutBuf(p),
                  inputScale |-> sc.inputScale, inputOffset |-> sc.inputOffset,
                  filterScale |-> sc.filterScale, filterOffset |-> sc.filterOffset,
                  outputScale |-> sc.outputScale, outputOffset |-> sc.outputOffset ],
          input  |-> InputPattern(sc.inPat, sh.n * sh.cin * InDim * InDim),
          filter |-> FilterPattern(sc.filtPat, sh.f0 * sh.cin * sh.kh * sh.kw),
          bias   |-> BiasPattern(sc.biasPat, cout),
          output |-> OutputGarbage(sh.n * cout * sh.ho * sh.wo) ]

NoArith == [ op |-> "none", a |-> 0, b |-> 0, exponent |-> 0, result |-> 0 ]

\* no test case provider
NoTest == [ constructed |-> FALSE ]

\* the state in which the calls of `calls` (call id -> MakeCall) are about to start
Setup(calls) ==
    LET ids == DOMAIN calls
        mem == [ b \in UNION { {InBuf(p), FiltBuf(p), BiasBuf(p), OutBuf(p)} : p \in ids } |->
                   LET p == ((b - 1) \div 4) + 1
                       k == (b - 1) % 4
                   IN  CASE k = 0 -> calls[p].input
                         [] k = 1 -> calls[p].filter
                         [] k = 2 -> calls[p].bias
                         [] OTHER -> calls[p].output ]
    IN  /\ cfg = [ p \in ids |-> calls[p].c ]
        /\ pc = [ p \in ids |-> "entry" ]
        /\ loc = [ p \in ids |-> InitLocals ]
        /\ obs = [ p \in ids |-> InitObs ]
        /\ heap = mem
        /\ heap0 = mem
        /\ arith = NoArith
        /\ test = NoTest

\* one call of ConvImpl
Calls ==
    (SpatialShapes \X SpatialScenarios) \cup (ChannelShapes \X Scenarios) \cup
    (RowShapes \X (Scenarios \cup ExtremeScenarios))

Init == \E k \in Calls : Setup(1 :> MakeCall(1, k[1], k[2]))

Next ==
    \/ \E p \in DOMAIN cfg : Enter(p)
    \/ \E p \in DOMAIN cfg : ChannelLoopTest(p)
    \/ \E p \in DOMAIN cfg : Mac(p)
    \/ \E p \in DOMAIN cfg : FinishElement(p)

Spec == Init /\ [][Next]_vars

---------------------------------------------------------------------------
(* Two calls made from two execution contexts on disjoint buffers: the     *)
(* steps of the two calls interleave in every order.  Each call is also    *)
(* run alone.                                                              *)

\* a 1 x 2 kernel over one output position per channel, padding on the left
ParShapes ==
    { Shape(dw, f0, cin, 1, 2, 1, 1, 0, 1, 1, 1, 1) :
      dw \in BOOLEAN, f0 \in 1..MaxChannels, cin \in 1..MaxChannels }

FirstCalls == ParShapes \X SpatialScenarios

\* the second call has one input channel
SecondCalls ==
    { sh \in ParShapes : sh.cin = 1 } \X { Scenario(0, 1, <<1, 1>>, One, One, 20, TRUE, FALSE, "ramp", "ramp", "small") }

InitPar ==
    \/ \E k \in FirstCalls : Setup(1 :> MakeCall(1, k[1], k[2]))
    \/ \E k \in SecondCalls : Setup(2 :> MakeCall(2, k[1], k[2]))
    \/ \E k1 \in FirstCalls : \E k2 \in SecondCalls :
         Setup((1 :> MakeCall(1, k1[1], k1[2])) @@ (2 :> MakeCall(2, k2[1], k2[2])))

SpecPar == InitPar /\ [][Next]_vars

---------------------------------------------------------------------------
(* A depthwise call with depth multiplier 1 on a 2-channel input (call 1), *)
(* and the standard path on each channel of the same data (calls 2 and 3), *)
(* made one after the other.                                               *)

\* the elements of channel ch of an NCHW buffer of n batches, `channels`
\* channels and `plane` elements per channel
SliceChannel(buf, n, channels, plane, ch) ==
    [ i \in 1..(n * plane) |->
        buf[((i - 1) \div plane) * channels * plane + ch * plane + ((i - 1) % plane) + 1] ]

DwShapes ==
    { Shape(TRUE, 1, 2, kh, kw, sy, sx, pt, pl, 2, 2, 2) :
      kh \in 1..MaxKernel, kw \in 1..MaxKernel, sy \in 1..MaxStride, sx \in 1..MaxStride,
      pt \in 0..MaxPad, pl \in 0..MaxPad }

DwScenarios ==
    { Scenario(0, 0, Zero, Zero, Zero, 0, FALSE, TRUE, "cycle", "cycle", "zero"),
      Scenario(3, 1, <<1, 1>>, One, One, 30, TRUE, FALSE, "cycle", "cycle", "small") }

\* the standard-path call p on channel ch of the data of the depthwise call d
ChannelCall(p, d, ch) ==
    LET c == d.c
    IN  [ c |-> [ c EXCEPT !.depthwise = FALSE,
                           !.filterShape = <<1, 1, c.filterShape[3], c.filterShape[4]>>,
                           !.inputShape = <<c.inputShape[1], 1, c.inputShape[3], c.inputShape[4]>>,
                           !.outputShape = <<c.outputShape[1], 1, c.outputShape[3], c.outputShape[4]>>,
                           !.inputData = InBuf(p), !.filterData = FiltBuf(p),
                           !.biasData = IF c.biasData = NullPtr THEN NullPtr ELSE BiasBuf(p),
                           !.outputData = OutBuf(p) ],
          input  |-> SliceChannel(d.input, c.inputShape[1], 2, c.inputShape[3] * c.inputShape[4], ch),
          filter |-> SliceChannel(d.filter, 1, 2, c.filterShape[3] * c.filterShape[4], ch),
          bias   |-> SliceChannel(d.bias, 1, 2, 1, ch),
          output |-> OutputGarbage(c.outputShape[1] * c.outputShape[3] * c.outputShape[4]) ]

InitDw ==
    \E sh \in DwShapes : \E sc \in DwScenarios :
       LET d == MakeCall(1, sh, sc)
       IN  Setup((1 :> d) @@ (2 :> ChannelCall(2, d, 0)) @@ (3 :> ChannelCall(3, d, 1)))

\* a call is made when the calls before it have returned
Turn(p) == \A q \in DOMAIN cfg : q < p => Ended(q)

NextDw ==
    \/ \E p \in DOMAIN cfg : Turn(p) /\ Enter(p)
    \/ \E p \in DOMAIN cfg : Turn(p) /\ ChannelLoopTest(p)
    \/ \E p \in DOMAIN cfg : Turn(p) /\ Mac(p)
    \/ \E p \in DOMAIN cfg : Turn(p) /\ FinishElement(p)

SpecDw == InitDw /\ [][NextDw]_vars

---------------------------------------------------------------------------
(* The fixed-point primitives on their own: operands drawn from samples of *)
(* int32_t that hold the limits, the powers of two around 2^30 and every   *)
(* small value, each primitive applied once.                               *)

SmallRange == 8
MaxExponent == 4

Int32Samples ==
    (-SmallRange .. SmallRange) \cup
    { MinI32, MinI32 + 1, -(2 ^ 30) - 1, -(2 ^ 30), -(2 ^ 30) + 1, -3 * (2 ^ 29),
      -987654321, 123456789, 3 * (2 ^ 29), (2 ^ 30) - 1, 2 ^ 30, (2 ^ 30) + 1,
      MaxI32 - 1, MaxI32 }

ExponentSamples == (0 .. MaxExponent) \cup {15, 29, 30}

InitArith ==
    /\ arith \in [ op : {"none"}, a : Int32Samples, b : Int32Samples,
                   exponent : ExponentSamples, result : {0} ]
    /\ cfg = <<>> /\ pc = <<>> /\ loc = <<>> /\ obs = <<>>
    /\ heap = <<>> /\ heap0 = <<>>
    /\ test = NoTest

ApplyMul ==
    /\ arith.op = "none"
    /\ arith' = [arith EXCEPT !.op = "SaturatingRoundingDoublingHighMul",
                              !.result = SaturatingRoundingDoublingHighMul(arith.a, arith.b)]
    /\ UNCHANGED <<cfg, pc, loc, heap, heap0, obs, test>>

ApplyDiv ==
    /\ arith.op = "none"
    /\ arith' = [arith EXCEPT !.op = "RoundingDivideByPOT",
                              !.result = RoundingDivideByPOT(arith.a, arith.exponent)]
    /\ UNCHANGED <<cfg, pc, loc, heap, heap0, obs, test>>

NextArith == ApplyMul \/ ApplyDiv

SpecArith == InitArith /\ [][NextArith]_vars

---------------------------------------------------------------------------
(* The classifier test cases of tests/InferenceTest.inl.  Every test case  *)
(* holds references to the two counters, the expected predictions and the  *)
(* recorded predictions of the one provider (GetTestCase, lines 172-180);  *)
(* ProcessResult is called on one test case after another.  The output of  *)
(* the model is a vector of confidences, one per class.                    *)

MaxCalls == 3
NumClasses == 2
MaxTestCaseId == 1

Classes == 0 .. (NumClasses - 1)

\* the output vectors of the model: a confidence of 0 or 1 for each class
Outputs == [ 1..NumClasses -> {0, 1} ]

\* m_ValidationPredictions after ReadPredictions: empty without an input
\* validation file, otherwise one prediction per line read
ValidationFiles ==
    { <<>> } \cup
    { [ i \in 1..n |-> (i + shift) % NumClasses ] : n \in 1..MaxTestCaseId, shift \in Classes }

RECURSIVE MaxElement(_, _, _)
\* std::max_element(output.begin(), output.end()): the first position (from 0)
\* of the largest element; `largest` is the position kept so far, i the next
MaxElement(output, largest, i) ==
    IF i >= Len(output)
    THEN largest
    ELSE MaxElement(output, IF output[largest + 1] < output[i + 1] THEN i ELSE largest, i + 1)

\* lines 80-81: prediction = distance(begin, max_element(begin, end))
Prediction(output) == IF output = <<>> THEN 0 ELSE MaxElement(output, 0, 1)

\* line 84: params.m_IterationCount == 0 && prediction != m_Label
LabelMismatch(m_IterationCount, prediction, m_Label) ==
    m_IterationCount = 0 /\ prediction # m_Label

\* line 92: m_ValidationPredictions[testCaseId]; past the end of the vector
\* the read is undefined behaviour and any value may come back
ValidationOutcomes(m_ValidationPredictions, testCaseId) ==
    IF testCaseId < Len(m_ValidationPredictions)
    THEN { m_ValidationPredictions[testCaseId + 1] }
    ELSE 0 .. NumClasses

\* line 92: !m_ValidationPredictions.empty() && prediction != m_ValidationPredictions[testCaseId]
ValidationMismatch(m_ValidationPredictions, prediction, expected) ==
    m_ValidationPredictions # <<>> /\ prediction # expected

\* A variant that counts every accepted inference as correct.
CountsAsCorrectAlways(prediction, m_Label) == TRUE

\* line 104: prediction == m_Label
CountsAsCorrect(prediction, m_Label) == prediction = m_Label

NoCall ==
    [ result |-> "none", why |-> "none", testCaseId |-> 0, prediction |-> 0, m_Label |-> 0,
      expected |-> 0, numInferences |-> 0, numCorrectInferences |-> 0, predictionsOut |-> <<>> ]

\* the provider after its constructor (lines 117-124), ReadPredictions and
\* the command line; calls, okCalls, okCorrect and last are ghosts
Provider(validation, fileOut, iterationCount) ==
    [ constructed |-> TRUE,
      m_NumInferences |-> 0,
      m_NumCorrectInferences |-> 0,
      m_ValidationPredictions |-> validation,
      m_ValidationFileOut |-> fileOut,
      m_ValidationPredictionsOut |-> <<>>,
      m_IterationCount |-> iterationCount,
      finished |-> "no",
      accuracy |-> <<0, 0>>,
      calls |-> 0, okCalls |-> 0, okCorrect |-> 0, last |-> NoCall ]

InitTest ==
    /\ test \in { Provider(v, f, n) : v \in ValidationFiles, f \in BOOLEAN, n \in {0, 1} }
    /\ cfg = <<>> /\ pc = <<>> /\ loc = <<>> /\ obs = <<>>
    /\ heap = <<>> /\ heap0 = <<>>
    /\ arith = NoArith

\* the call record of ProcessResult returning `result`
CallRecord(result, why, testCaseId, prediction, m_Label, expected) ==
    [ result |-> result, why |-> why, testCaseId |-> testCaseId,
      prediction |-> prediction, m_Label |-> m_Label, expected |-> expected,
      numInferences |-> test.m_NumInferences,
      numCorrectInferences |-> test.m_NumCorrectInferences,
      predictionsOut |-> test.m_ValidationPredictionsOut ]

\* lines 84-89 and 92-97: the two early returns of TestCaseResult::Failed
ReturnFailed(why, testCaseId, prediction, m_Label, expected) ==
    test' = [test EXCEPT !.calls = @ + 1,
                         !.last = CallRecord("Failed", why, testCaseId, prediction, m_Label, expected)]

\* lines 100-109: the prediction is recorded, the counters are updated and
\* TestCaseResult::Ok is returned
ReturnOk(testCaseId, prediction, m_Label, expected) ==
    \E n \in AddI32(test.m_NumInferences, 1) :
    \E k \in (IF CountsAsCorrect(prediction, m_Label)
              THEN AddI32(test.m_NumCorrectInferences, 1)
              ELSE {test.m_NumCorrectInferences}) :
      test' = [test EXCEPT
                 !.m_ValidationPredictionsOut =
                     IF test.m_ValidationFileOut THEN Append(@, prediction) ELSE @,
                 !.m_NumInferences = n,
                 !.m_NumCorrectInferences = k,
                 !.calls = @ + 1,
                 !.okCalls = @ + 1,
                 !.okCorrect = @ + (IF prediction = m_Label THEN 1 ELSE 0),
                 !.last = CallRecord("Ok", "none", testCaseId, prediction, m_Label, expected)]

\* ClassifierTestCase::ProcessResult (lines 53-110) of one test case
ProcessResult ==
    /\ test.constructed /\ test.finished = "no" /\ test.calls < MaxCalls
    /\ \E testCaseId \in 0..MaxTestCaseId : \E m_Label \in Classes : \E output \in Outputs :
         LET prediction == Prediction(output)
             validation == test.m_ValidationPredictions
         IN  IF LabelMismatch(test.m_IterationCount, prediction, m_Label)
             THEN ReturnFailed("label", testCaseId, prediction, m_Label, prediction)
             ELSE IF validation = <<>>
             THEN ReturnOk(testCaseId, prediction, m_Label, prediction)
             ELSE \E expected \in ValidationOutcomes(validation, testCaseId) :
                    IF ValidationMismatch(validation, prediction, expected)
                    THEN ReturnFailed("validation", testCaseId, prediction, m_Label, expected)
                    ELSE ReturnOk(testCaseId, prediction, m_Label, expected)
    /\ UNCHANGED <<cfg, pc, loc, heap, heap0, obs, arith>>

\* ClassifierTestCaseProvider::OnInferenceTestFinished (lines 184-208): the
\* accuracy is the quotient of the two counters; the recorded predictions
\* are saved when a file was asked for and can be opened
OnInferenceTestFinished ==
    /\ test.constructed /\ test.finished = "no"
    /\ \E good \in (IF test.m_ValidationFileOut THEN BOOLEAN ELSE {TRUE}) :
         test' = [test EXCEPT
                    !.accuracy = <<test.m_NumCorrectInferences, test.m_NumInferences>>,
                    !.finished = IF good THEN "true" ELSE "false"]
    /\ UNCHANGED <<cfg, pc, loc, heap, heap0, obs, arith>>

NextTest == ProcessResult \/ OnInferenceTestFinished

SpecTest == InitTest /\ [][NextTest]_vars

---------------------------------------------------------------------------
(* Claims *)

Finished(p) == obs[p].lastFinish

OutputCell(p, index) == heap[cfg[p].outputData][index + 1]

\* calls 1, 2, 3 are a depthwise call and the standard-path calls on its channels
DepthwiseTriple ==
    /\ DOMAIN cfg = {1, 2, 3}
    /\ cfg[1].depthwise /\ ~cfg[2].depthwise /\ ~cfg[3].depthwise

\* C1: with outputScale != 0 every value written to the output buffer lies in
\* [0, 255]: the narrowing cast never throws, a value above 255 is written as
\* 255 and a value below 0 as 0, whatever the accumulator, the bias and
\* outputOffset are, and a value in the range is written as it is.
C1_QuantizedOutputSaturates ==
    \A p \in DOMAIN cfg :
        Quantized(cfg[p]) =>
            /\ pc[p] # "threw"
            /\ \A k \in 1..Len(obs[p].writes) :
                   OutputCell(p, obs[p].writes[k]) \in 0..255
            /\ (Finished(p).valid /\ Finished(p).kind # "assert_failed") =>
                   /\ Finished(p).kind = "write"
                   /\ Finished(p).pre > 255 => OutputCell(p, Finished(p).index) = 255
                   /\ Finished(p).pre < 0 => OutputCell(p, Finished(p).index) = 0
                   /\ Finished(p).pre \in 0..255 =>
                          OutputCell(p, Finished(p).index) = Finished(p).pre

\* an accumulator of INT32_MAX is rescaled and written as 255
C1_Witness ==
    \E p \in DOMAIN cfg :
        /\ Quantized(cfg[p])
        /\ Finished(p).valid /\ Finished(p).kind = "write"
        /\ Finished(p).biased = MaxI32
        /\ Finished(p).pre > 255
        /\ OutputCell(p, Finished(p).index) = 255

\* the padding as the claim words it
CoordinateInPadding(c, y, x) ==
    \/ y < c.m_PadTop
    \/ x < c.m_PadLeft
    \/ y >= c.inputShape[3] + c.m_PadTop
    \/ x >= c.inputShape[4] + c.m_PadLeft

WindowInPadding(c, yOutput, xOutput) ==
    \A yFilter \in 0..(c.filterShape[3] - 1) : \A xFilter \in 0..(c.filterShape[4] - 1) :
        CoordinateInPadding(c, yOutput * c.m_StrideY + yFilter, xOutput * c.m_StrideX + xFilter)

BiasOrZero(p, cOutput) ==
    IF cfg[p].m_BiasEnabled THEN heap0[cfg[p].biasData][cOutput + 1] ELSE 0

\* C2: when the depthwise call with depth multiplier 1 on a 2-channel input
\* and the two standard-path calls on its channels have all completed, channel
\* ch of the depthwise output is, batch by batch, the whole output of the
\* standard-path call on channel ch: the depthwise output is the concatenation
\* of the two.
C2_DepthwiseIsPerChannelStandard ==
    DepthwiseTriple /\ (\A p \in DOMAIN cfg : pc[p] = "done") =>
        \A ch \in {0, 1} :
          LET c == cfg[1]
          IN  SliceChannel(heap[c.outputData], batchSize(c), 2,
                           heightOutput(c) * widthOutput(c), ch)
                = heap[cfg[2 + ch].outputData]

\* the three calls completed for a 2 x 2 kernel with stride 2, padding on both
\* sides and bias, and the two channels' outputs differ
C2_Witness ==
    /\ DepthwiseTriple
    /\ \A p \in DOMAIN cfg : pc[p] = "done"
    /\ heightFilter(cfg[1]) = 2 /\ widthFilter(cfg[1]) = 2
    /\ cfg[1].m_StrideY = 2 /\ cfg[1].m_StrideX = 2
    /\ cfg[1].m_PadTop = 1 /\ cfg[1].m_PadLeft = 1
    /\ cfg[1].m_BiasEnabled
    /\ heap[cfg[2].outputData] # heap[cfg[3].outputData]
    /\ heap[cfg[2].outputData] # heap0[cfg[2].outputData]
    /\ \A i \in DOMAIN heap[cfg[1].outputData] :
         heap[cfg[1].outputData][i] > 0 /\ heap[cfg[1].outputData][i] < 255

\* C3: a kernel position whose input coordinate lies in the padding leaves the
\* accumulator as it was, whatever inputOffset and the filter value are; and
\* with outputScale == 0 an output coordinate whose whole window lies in the
\* padding has an accumulator of 0, so that what reaches the narrowing cast,
\* and what is written, is bias[cOutput] with bias enabled and 0 without.
C3_PaddingAddsZero ==
    \A p \in DOMAIN cfg :
        /\ (obs[p].lastMac.valid /\
            CoordinateInPadding(cfg[p], obs[p].lastMac.yInput, obs[p].lastMac.xInput)) =>
               obs[p].lastMac.after = obs[p].lastMac.before
        /\ (/\ Finished(p).valid
            /\ Finished(p).kind \in {"write", "threw"}
            /\ ~Quantized(cfg[p])
            /\ WindowInPadding(cfg[p], Finished(p).yOutput, Finished(p).xOutput)) =>
               /\ Finished(p).acc = 0
               /\ Finished(p).value = BiasOrZero(p, Finished(p).cOutput)
               /\ Finished(p).kind = "write" =>
                      OutputCell(p, Finished(p).index) = BiasOrZero(p, Finished(p).cOutput)

\* a window in the padding, every input value and inputOffset non-zero, and
\* the non-zero bias written
C3_Witness ==
    \E p \in DOMAIN cfg :
        /\ ~Quantized(cfg[p]) /\ cfg[p].m_BiasEnabled
        /\ cfg[p].inputOffset # 0
        /\ \A i \in 1..Len(heap[cfg[p].inputData]) :
               heap[cfg[p].inputData][i] # 0 /\ heap[cfg[p].inputData][i] # cfg[p].inputOffset
        /\ Finished(p).valid /\ Finished(p).kind = "write"
        /\ WindowInPadding(cfg[p], Finished(p).yOutput, Finished(p).xOutput)
        /\ BiasOrZero(p, Finished(p).cOutput) # 0
        /\ OutputCell(p, Finished(p).index) = BiasOrZero(p, Finished(p).cOutput)

\* the linear indices of the output tensor
OutputIndices(c) ==
    { b * c.outputShape[4] * c.outputShape[3] * c.outputShape[2] +
      ch * c.outputShape[4] * c.outputShape[3] + y * c.outputShape[4] + x :
      b \in 0..(c.outputShape[1] - 1), ch \in 0..(c.outputShape[2] - 1),
      y \in 0..(c.outputShape[3] - 1), x \in 0..(c.outputShape[4] - 1) }

WrittenOnce(p) ==
    /\ Len(obs[p].writes) = Cardinality(OutputIndices(cfg[p]))
    /\ { obs[p].writes[k] : k \in 1..Len(obs[p].writes) } = OutputIndices(cfg[p])

\* C4: a call ends either normally, with every index of the output tensor
\* written exactly once and no other index written, or without having written
\* anything; no call stops after writing part of the output.
C4_CompletesOrWritesNothing ==
    \A p \in DOMAIN cfg :
        Ended(p) => \/ pc[p] = "done" /\ WrittenOnce(p)
                    \/ pc[p] # "done" /\ obs[p].writes = <<>>

\* C5: with bias enabled and a null bias buffer the call fails at the
\* assertion, before any element is read or written; with bias disabled the
\* bias buffer is never read, so that a null one is accepted.
C5_BiasPrecondition ==
    \A p \in DOMAIN cfg :
        /\ (cfg[p].m_BiasEnabled /\ cfg[p].biasData = NullPtr) =>
               /\ pc[p] \in {"entry", "assert_failed"}
               /\ obs[p].readBufs = {} /\ obs[p].writeBufs = {}
               /\ obs[p].writes = <<>>
               /\ heap = heap0
        /\ ~cfg[p].m_BiasEnabled =>
               /\ BiasBuf(p) \notin obs[p].readBufs
               /\ NullPtr \notin obs[p].readBufs
               /\ pc[p] # "crashed"
               /\ pc[p] = "assert_failed" => Finished(p).valid

C5_Witness ==
    \E p \in DOMAIN cfg :
        /\ cfg[p].m_BiasEnabled /\ cfg[p].biasData = NullPtr
        /\ pc[p] = "assert_failed"
        /\ ~Finished(p).valid
        /\ obs[p].readBufs = {} /\ heap = heap0

\* the output elements of a call, as the values of its four output loops
OutputElements(c) ==
    { [InitLocals EXCEPT !.batchIdx = b, !.cOutput = co, !.yOutput = y, !.xOutput = x] :
      b \in 0..(batchSize(c) - 1), co \in 0..(channelsOutput(c) - 1),
      y \in 0..(heightOutput(c) - 1), x \in 0..(widthOutput(c) - 1) }

\* the filter positions an output element accumulates over when the call runs
\* alone: one input channel for depthwise, every input channel otherwise
AloneTerms(c, e) ==
    { [e EXCEPT !.cInput = ch[1], !.depthwiseMultiplierIdx = ch[2],
                !.yFilter = yf, !.xFilter = xf] :
      ch \in (IF c.depthwise
              THEN {<<e.cOutput \div depthMult(c), e.cOutput % depthMult(c)>>}
              ELSE {<<ci, 0>> : ci \in 0..(channelsInput(c) - 1)}),
      yf \in 0..(heightFilter(c) - 1), xf \in 0..(widthFilter(c) - 1) }

AloneTerm(c, h, t) ==
    LET yInput == yInputOf(c, t)
        xInput == xInputOf(c, t)
    IN  (h[c.filterData][FilterIndex(c, t) + 1] - c.filterOffset) *
        (IF InPadding(c, yInput, xInput)
         THEN 0
         ELSE h[c.inputData][InputIndex(c, t, yInput, xInput) + 1] - c.inputOffset)

RECURSIVE AloneSum(_, _, _)
AloneSum(c, h, terms) ==
    IF terms = {}
    THEN 0
    ELSE LET t == CHOOSE u \in terms : TRUE
         IN  AloneTerm(c, h, t) + AloneSum(c, h, terms \ {t})

\* what finishing output element e comes to when the call runs alone on the
\* buffers h (no accumulation overflows in the calls this is used for)
AloneOutcomes(c, h, e) ==
    FinishOutcomes(c, [e EXCEPT !.sum = AloneSum(c, h, AloneTerms(c, e))], h)

Written(p, index) == \E i \in DOMAIN obs[p].writes : obs[p].writes[i] = index

\* C8: a call, alone or interleaved in any order with a second call on
\* disjoint buffers, reads only its input, filter and bias buffers and writes
\* only its output buffer; every buffer that is not an output buffer keeps its
\* contents; each output element holds, once written, the value the call alone
\* writes there and until then what the buffer held before; a call that
\* completes has written every element, and a call that stops at the narrowing
\* cast stops at an element where it stops alone.
C8_ConcurrentCallsIndependent ==
    \A p \in DOMAIN cfg :
      LET c == cfg[p]
      IN  /\ obs[p].readBufs \subseteq {c.inputData, c.filterData, c.biasData}
          /\ obs[p].writeBufs \subseteq {c.outputData}
          /\ \A b \in DOMAIN heap :
                b \notin { cfg[q].outputData : q \in DOMAIN cfg } => heap[b] = heap0[b]
          /\ \A e \in OutputElements(c) :
                LET index == OutputIndex(c, e)
                IN  /\ OutputCell(p, index) \in
                         IF Written(p, index)
                         THEN { o.value : o \in { a \in AloneOutcomes(c, heap0, e) :
                                                  a.kind = "write" } }
                         ELSE { heap0[c.outputData][index + 1] }
                    /\ pc[p] = "done" =>
                         /\ Written(p, index)
                         /\ \A a \in AloneOutcomes(c, heap0, e) : a.kind = "write"
          /\ pc[p] = "threw" =>
                \E e \in OutputElements(c) :
                  /\ OutputIndex(c, e) = Finished(p).index
                  /\ \E a \in AloneOutcomes(c, heap0, e) : a.kind = "threw"
          /\ pc[p] \notin {"assert_failed", "crashed"}

\* both calls are in the middle of an element, the first accumulating and the
\* second about to finish, each with a non-zero accumulator of its own and an
\* element already written
C8_Witness ==
    /\ DOMAIN cfg = {1, 2}
    /\ pc[1] = "mac" /\ pc[2] = "finish"
    /\ obs[1].writes # <<>> /\ obs[2].writes # <<>>
    /\ loc[1].sum # 0 /\ loc[2].sum # 0 /\ loc[1].sum # loc[2].sum

\* C9: with depthwise = true the body of the input-channel loop runs exactly
\* once for every output channel, with cInput == cOutput / depthMult and the
\* filter slice cOutput % depthMult; with depthwise = false it runs once for
\* each cInput of 0 .. channelsInput - 1, in that order.
C9_ChannelLoopRuns ==
    \A p \in DOMAIN cfg :
        LET c    == cfg[p]
            l    == loc[p]
            dm   == IF c.depthwise THEN c.filterShape[1] ELSE 1
            runs == obs[p].bodyRuns
            once == << <<l.cOutput \div dm, l.cOutput % dm>> >>
            each == [ k \in 1..c.filterShape[2] |-> <<k - 1, 0>> ]
        IN  IF c.depthwise
            THEN /\ Len(runs) <= 1
                 /\ pc[p] \in {"mac", "finish"} => runs = once
                 /\ pc[p] = "mac" =>
                        /\ l.cInput = l.cOutput \div dm
                        /\ FilterIndex(c, l) \div (c.filterShape[2] * c.filterShape[3] *
                                                   c.filterShape[4]) = l.cOutput % dm
            ELSE /\ Len(runs) <= c.filterShape[2]
                 /\ runs = SubSeq(each, 1, Len(runs))
                 /\ pc[p] = "finish" => runs = each
                 /\ pc[p] = "mac" => l.cInput = Len(runs) - 1

\* output channel 3 of a depthwise call with depthMult 2 has run the body once,
\* for input channel 1 and filter slice 1
C9_Witness ==
    \E p \in DOMAIN cfg :
        /\ cfg[p].depthwise /\ cfg[p].filterShape[1] = 2
        /\ loc[p].cOutput = 3
        /\ pc[p] = "finish"
        /\ obs[p].bodyRuns = << <<1, 1>> >>

ElementCount(shape) == shape[1] * shape[2] * shape[3] * shape[4]

\* C10: every filter index read is below the filter's element count, every
\* input index read is below the input's element count, and the subtractions
\* yInput - paddingTop and xInput - paddingLeft are evaluated only when they do
\* not underflow.
C10_ReadsInBounds ==
    \A p \in DOMAIN cfg :
        /\ ~obs[p].oob
        /\ obs[p].lastMac.valid =>
               /\ obs[p].lastMac.filterIndex \in 0..(ElementCount(cfg[p].filterShape) - 1)
               /\ ~obs[p].lastMac.padded =>
                      /\ obs[p].lastMac.inputIndex \in 0..(ElementCount(cfg[p].inputShape) - 1)
                      /\ obs[p].lastMac.yInput >= cfg[p].m_PadTop
                      /\ obs[p].lastMac.xInput >= cfg[p].m_PadLeft
        /\ pc[p] = "mac" =>
               /\ FilterIndex(cfg[p], loc[p]) < ElementCount(cfg[p].filterShape)
               /\ ~InPadding(cfg[p], yInputOf(cfg[p], loc[p]), xInputOf(cfg[p], loc[p])) =>
                      InputIndex(cfg[p], loc[p], yInputOf(cfg[p], loc[p]),
                                 xInputOf(cfg[p], loc[p]))
                          \in 0..(ElementCount(cfg[p].inputShape) - 1)

\* the last element of the input and of the filter are read by a depthwise
\* call with padding and a stride of 2
C10_Witness ==
    \E p \in DOMAIN cfg :
        /\ cfg[p].depthwise
        /\ cfg[p].m_PadLeft > 0 /\ cfg[p].m_PadTop > 0 /\ cfg[p].m_StrideX = 2
        /\ obs[p].lastMac.valid /\ ~obs[p].lastMac.padded
        /\ obs[p].lastMac.inputIndex = ElementCount(cfg[p].inputShape) - 1
        /\ obs[p].lastMac.filterIndex = ElementCount(cfg[p].filterShape) - 1

\* C6: SaturatingRoundingDoublingHighMul(a, b) equals
\* SaturatingRoundingDoublingHighMul(b, a) for every pair of int32 values, its
\* result is an int32 value, and it is INT32_MAX for (INT32_MIN, INT32_MIN).
C6_MulCommutesAndSaturates ==
    arith.op = "SaturatingRoundingDoublingHighMul" =>
        /\ arith.result = SaturatingRoundingDoublingHighMul(arith.b, arith.a)
        /\ IsI32(arith.result)
        /\ (arith.a = MinI32 /\ arith.b = MinI32) => arith.result = MaxI32

C6_Witness ==
    /\ arith.op = "SaturatingRoundingDoublingHighMul"
    /\ arith.a = MinI32 /\ arith.b = MinI32
    /\ arith.result = MaxI32

\* x / 2^e rounded to the nearest integer, exact halves away from zero: with
\* q the floor of the quotient and r the remainder in [0, 2^e), the result is
\* q + 1 when r is more than half of 2^e, or exactly half and x is positive.
NearestHalfAway(x, e) ==
    LET d == 2 ^ e
        q == x \div d
        r == x % d
    IN  IF r > d - r \/ (r = d - r /\ x > 0) THEN q + 1 ELSE q

\* C7: for every int32 x and every shift >= 0, RoundingDivideByPOT(x, shift) is
\* x / 2^shift rounded to the nearest integer, halves away from zero for
\* negative and for positive x, and RoundingDivideByPOT(x, 0) is x.
C7_RoundsHalfAwayFromZero ==
    arith.op = "RoundingDivideByPOT" =>
        /\ arith.result = NearestHalfAway(arith.a, arith.exponent)
        /\ arith.exponent = 0 => arith.result = arith.a

\* -3 / 2 is -1.5 and rounds to -2
C7_Witness ==
    /\ arith.op = "RoundingDivideByPOT"
    /\ arith.a = -3 /\ arith.exponent = 1
    /\ arith.result = -2


\* C11: after any sequence of ProcessResult calls on test cases that share
\* the provider's counters, m_NumInferences is the number of calls that
\* returned Ok and m_NumCorrectInferences the number of those whose prediction
\* equalled the label, so the second never exceeds the first; one prediction
\* is recorded per Ok call when an output validation file was asked for; a
\* call returns Failed only for a label mismatch with m_IterationCount == 0 or
\* a mismatch with the validation file, and leaves both counters and the
\* recorded predictions as they were; the accuracy reported at the end is the
\* quotient of the two counters.
C11_CountersMatchOkCalls ==
    test.constructed =>
      /\ test.m_NumInferences = test.okCalls
      /\ test.m_NumCorrectInferences = test.okCorrect
      /\ test.m_NumCorrectInferences <= test.m_NumInferences
      /\ Len(test.m_ValidationPredictionsOut) =
            (IF test.m_ValidationFileOut THEN test.okCalls ELSE 0)
      /\ test.last.result = "Failed" =>
            /\ test.m_NumInferences = test.last.numInferences
            /\ test.m_NumCorrectInferences = test.last.numCorrectInferences
            /\ test.m_ValidationPredictionsOut = test.last.predictionsOut
            /\ \/ /\ test.last.why = "label"
                  /\ test.m_IterationCount = 0
                  /\ test.last.prediction # test.last.m_Label
               \/ /\ test.last.why = "validation"
                  /\ test.m_ValidationPredictions # <<>>
                  /\ test.last.prediction # test.last.expected
                  /\ test.last.testCaseId < Len(test.m_ValidationPredictions) =>
                        test.last.expected =
                          test.m_ValidationPredictions[test.last.testCaseId + 1]
      /\ test.last.result = "Ok" =>
            /\ test.m_NumInferences = test.last.numInferences + 1
            /\ test.m_IterationCount = 0 => test.last.prediction = test.last.m_Label
            /\ test.m_ValidationPredictions # <<>> => test.last.prediction = test.last.expected
      /\ test.finished # "no" =>
            test.accuracy = <<test.okCorrect, test.okCalls>>

\* three calls on the shared counters: two returned Ok, one of them with a
\* wrong prediction, and the last returned Failed against the validation
\* file, with both predictions recorded
C11_Witness ==
    /\ test.constructed
    /\ test.m_IterationCount # 0
    /\ test.m_ValidationFileOut
    /\ test.calls = 3
    /\ test.m_NumInferences = 2
    /\ test.m_NumCorrectInferences = 1
    /\ Len(test.m_ValidationPredictionsOut) = 2
    /\ test.last.result = "Failed" /\ test.last.why = "validation"
    /\ test.last.testCaseId < Len(test.m_ValidationPredictions)
    /\ test.last.prediction = test.last.m_Label

============================================================================
